---- MODULE Spec2Model ----
(***************************************************************************)
(* Forward-pass orchestration of vllm_ascend/models/deepseek_v2.py:        *)
(* the padding plan (_dp_metadata_for_padding), the pad/unpad transforms,  *)
(* and the decoder layer's communication steps on a dp x tp grid of ranks. *)
(*                                                                         *)
(* A tensor is modelled by the sequence of its rows; a row is a label:     *)
(* 0 is a zero (padding) row, TokenId(d, i) is token i of dp rank d.       *)
(***************************************************************************)
EXTENDS Integers, Sequences, FiniteSets, TLC

\* ------------------------------------------------------------- bounds
\* tokens per data-parallel rank in a forward pass of the layer machine
\* (every rank runs at least one token, an idle rank a dummy one)
MaxTok == 3
\* tokens per data-parallel rank when the pad/unpad transforms run alone
MaxLen == 5
\* config.num_hidden_layers of the modelled stack
NumLayers == 3

DpSizes == {1, 2}
TpSizes == {1, 2}
TpSizesPad == {1, 2, 3}

\* ------------------------------------------------------------- values
\* Python None
None == <<-2>>
\* a raised shape / index error, as a tensor value
Err == <<-1>>

Stride == MaxLen + MaxTok + 1
TokenId(d, i) == d * Stride + i

Min(a, b) == IF a < b THEN a ELSE b
Max(a, b) == IF a > b THEN a ELSE b

\* data[a:b] on rows (0-based, half open, clamped like a Python slice)
Slice(s, a, b) == SubSeq(s, Min(a, Len(s)) + 1, Min(b, Len(s)))

\* n zero rows
Zeros(n) == [i \in 1..n |-> 0]

RECURSIVE SumSeq(_)
SumSeq(s) == IF s = <<>> THEN 0 ELSE Head(s) + SumSeq(Tail(s))

RECURSIVE MaxSeq(_)
MaxSeq(s) == IF Len(s) = 1 THEN s[1] ELSE Max(s[1], MaxSeq(Tail(s)))

RECURSIVE Concat(_)
Concat(ss) == IF ss = <<>> THEN <<>> ELSE Head(ss) \o Concat(Tail(ss))

\* number of true entries of a boolean vector
RECURSIVE CountTrue(_)
CountTrue(m) == IF m = <<>> THEN 0
                ELSE (IF Head(m) THEN 1 ELSE 0) + CountTrue(Tail(m))

VARIABLES
  cfg,        \* construction-time configuration shared by all ranks
  plan,       \* the module global _dp_metadata_for_padding
  planFresh,  \* history: plan was computed in the pass now running
  maskLocal,  \* forward's local name atten_unpad_mask is bound
  pc,         \* position of the forward pass
  is_prefill, \* phase of the pass
  cu,         \* dp_metadata.cu_tokens_across_dp_cpu of the pass
  li,         \* index of the layer being executed
  rk,         \* per rank <<d, t>>: hs (hidden_states), res (residual),
              \* sh (shared_output), st ("run", "hung", "undefined" or the
              \* exception raised), trace (operations of the current layer),
              \* nres / nsh (additions of residual / shared output so far)
  px,         \* the transform applied when the transforms run alone
  pp          \* history of the pass over the pipeline stages: stage (index
              \* of the stage running), invoked (layer indices called so
              \* far), starts / msgs (the pair each stage started from /
              \* returned as an inter-stage message), norms (stages that
              \* applied the final normalisation)

vars == <<cfg, plan, planFresh, maskLocal, pc, is_prefill, cu, li, rk, px, pp>>

\* ------------------------------------------------------------- padding plan
\* lengths = cat(cu[:1], cu[1:] - cu[:-1])
Lengths(c) == [i \in 1..Len(c) |-> IF i = 1 THEN c[1] ELSE c[i] - c[i - 1]]

\* max_length = ((lengths.max() + tp - 1) // tp) * tp
MaxLengthNoRound(lengths, tp_size) == MaxSeq(lengths)
MaxLength(lengths, tp_size) ==
  ((MaxSeq(lengths) + tp_size - 1) \div tp_size) * tp_size

\* pad_size = -(lengths - max_length)
PadSize(lengths, max_length) ==
  [i \in 1..Len(lengths) |-> -(lengths[i] - max_length)]

\* (arange(max_length).expand(dp_size, max_length) < lengths.view(-1, 1)).view(-1)
UnpadMaskLe(lengths, max_length, dp_size) ==
  [k \in 1..(dp_size * max_length) |->
     ((k - 1) % max_length) <= lengths[((k - 1) \div max_length) + 1]]
UnpadMaskReversed(lengths, max_length, dp_size) ==
  [k \in 1..(dp_size * max_length) |->
     ((k - 1) % max_length) >= max_length - lengths[((k - 1) \div max_length) + 1]]
UnpadMask(lengths, max_length, dp_size) ==
  [k \in 1..(dp_size * max_length) |->
     ((k - 1) % max_length) < lengths[((k - 1) \div max_length) + 1]]

\* DPMetadataForPadding(cu_tokens_across_dp_cpu, lengths, max_length, pad_size,
\*                      atten_unpad_mask)
ComputePlan(c, dp_size, tp_size) ==
  LET lengths == Lengths(c)
      max_length == MaxLength(lengths, tp_size)
  IN [cu_tokens_across_dp_cpu |-> c,
      lengths |-> lengths,
      max_length |-> max_length,
      pad_size |-> PadSize(lengths, max_length),
      atten_unpad_mask |-> UnpadMask(lengths, max_length, dp_size)]

\* _dp_metadata_for_padding = None: no plan stored (a stored plan has one
\* length per data-parallel rank, so it never equals this value)
NoPlan == [cu_tokens_across_dp_cpu |-> <<>>, lengths |-> <<>>,
           max_length |-> 0, pad_size |-> <<>>, atten_unpad_mask |-> <<>>]

\* ------------------------------------------------------------- transforms
\* F.pad(data, (0, 0, 0, n)): n zero rows appended
FPad(data, n) == data \o Zeros(n)

padding_aligned_tp_nopad(dp_rank, data) == data
padding_aligned_tp(dp_rank, data) ==
  IF plan.pad_size[dp_rank + 1] = 0 THEN data
  ELSE FPad(data, plan.pad_size[dp_rank + 1])

\* padded_data[atten_unpad_mask, :]; a mask whose length differs from the
\* number of rows raises IndexError
RECURSIVE MaskSelect(_, _)
MaskSelect(data, mask) ==
  IF data = <<>> THEN <<>>
  ELSE (IF Head(mask) THEN <<Head(data)>> ELSE <<>>)
       \o MaskSelect(Tail(data), Tail(mask))

unpadding_aligned_tp_head(padded_data) ==
  IF Len(plan.atten_unpad_mask) # Len(padded_data) THEN Err
  ELSE Slice(padded_data, 0, CountTrue(plan.atten_unpad_mask))
unpadding_aligned_tp(padded_data) ==
  IF Len(plan.atten_unpad_mask) # Len(padded_data) THEN Err
  ELSE MaskSelect(padded_data, plan.atten_unpad_mask)

\* merged_data[cur:cur + n] = data[start:start + n]: the right-hand side is
\* the clamped slice; it must have n rows, or one row (broadcast)
AssignOK(data, start, n) ==
  LET rhs == Len(Slice(data, start, start + n))
  IN rhs = n \/ (rhs = 1 /\ n >= 1)

AssignRows(data, start, n) ==
  LET rhs == Slice(data, start, start + n)
  IN IF Len(rhs) = n THEN rhs ELSE [i \in 1..n |-> rhs[1]]

\* the loop of padding_aligned_wp over dp_rank = k .. len(lengths) - 1
RECURSIVE WpBlocks(_, _, _, _)
WpBlocks(data, k, padded_starts, stride) ==
  IF k > Len(plan.lengths) THEN <<>>
  ELSE LET seq_len == plan.lengths[k]
       IN IF ~AssignOK(data, padded_starts, seq_len) THEN Err
          ELSE LET rest == WpBlocks(data, k + 1, padded_starts + seq_len, stride)
               IN IF rest = Err THEN Err
                  ELSE AssignRows(data, padded_starts, seq_len)
                       \o Zeros(stride - seq_len) \o rest

padding_aligned_wp_packed(data) == WpBlocks(data, 1, 0, 0)
padding_aligned_wp(data) == WpBlocks(data, 1, 0, plan.max_length)

unpadding_aligned_wp_first(dp_rank, padded_data) ==
  Slice(padded_data, 0, plan.lengths[dp_rank + 1])
unpadding_aligned_wp(dp_rank, padded_data) ==
  Slice(padded_data, plan.max_length * dp_rank,
        plan.max_length * dp_rank + plan.lengths[dp_rank + 1])

\* ------------------------------------------------------------- inputs
\* the rows of dp rank d (0-based) when it holds n tokens
Tokens(d, n) == [i \in 1..n |-> TokenId(d, i)]

\* rank d's block for the token counts c
Block(c, d) == Tokens(d, Lengths(c)[d + 1])

\* the ranks' blocks packed contiguously in rank order, no padding
Pack(c) == Concat([d \in 1..Len(c) |-> Block(c, d - 1)])

\* cumulative token counts of n ranks, each rank holding a number of tokens
\* of the set S
RECURSIVE CuSet(_, _)
CuSet(n, S) ==
  IF n = 1 THEN {<<a>> : a \in S}
  ELSE {Append(c, c[Len(c)] + a) : c \in CuSet(n - 1, S), a \in S}

NoPx == [op |-> "none", of |-> "none", r |-> 0, x |-> <<>>, out |-> <<>>]

\* ------------------------------------------------------------- ranks
Ranks == (0..(cfg.dp_size - 1)) \X (0..(cfg.tp_size - 1))

NoRanks == [r \in {} |-> 0]

NoPp == [stage |-> 0, invoked |-> <<>>, starts |-> <<>>, msgs |-> <<>>,
         norms |-> <<>>]

\* ------------------------------------------------------------- transforms alone
\* The plan block of CustomDeepseekV2ForCausalLM.forward and the four
\* transforms, applied to the ranks' token blocks of arbitrary token counts.
PadInit ==
  /\ \E dp \in DpSizes, tp \in TpSizesPad :
       cfg = [dp_size |-> dp, tp_size |-> tp, enable_graph_mode |-> FALSE,
              mc2 |-> FALSE, first_k_dense_replace |-> 0,
              moe_layer_freq |-> 1, n_shared_experts |-> TRUE,
              dynamic_quant |-> FALSE, fp16 |-> FALSE, pp_split |-> 0]
  /\ cu \in CuSet(cfg.dp_size, 0..MaxLen)
  /\ plan = NoPlan
  /\ planFresh = FALSE
  /\ maskLocal = FALSE
  /\ pc = "pure"
  /\ is_prefill = TRUE
  /\ li = 0
  /\ rk = NoRanks
  /\ px = NoPx
  /\ pp = NoPp

PadKeep ==
  UNCHANGED <<cfg, planFresh, maskLocal, pc, is_prefill, cu, li, rk, pp>>

\* lines 905-920: the plan of the pass
PlanStep ==
  /\ pc = "pure" /\ plan = NoPlan
  /\ plan' = ComputePlan(cu, cfg.dp_size, cfg.tp_size)
  /\ UNCHANGED px
  /\ PadKeep

\* padding_aligned_tp(r, x) on rank r's block
PadTpStep ==
  /\ pc = "pure" /\ plan # NoPlan
  /\ \E d \in 0..(cfg.dp_size - 1) :
       px' = [op |-> "pad_tp", of |-> "block", r |-> d, x |-> Block(cu, d),
              out |-> padding_aligned_tp(d, Block(cu, d))]
  /\ UNCHANGED plan
  /\ PadKeep

\* what the all-gather hands to unpadding_aligned_tp: every rank's padded
\* block, in rank order
GatherTpStep ==
  /\ pc = "pure" /\ plan # NoPlan
  /\ px' = [op |-> "gather_tp", of |-> "pack", r |-> 0, x |-> Pack(cu),
            out |-> Concat([d \in 1..cfg.dp_size |->
                              padding_aligned_tp(d - 1, Block(cu, d - 1))])]
  /\ UNCHANGED plan
  /\ PadKeep

\* padding_aligned_wp(p) on the rank-packed tensor
PadWpStep ==
  /\ pc = "pure" /\ plan # NoPlan
  /\ px' = [op |-> "pad_wp", of |-> "pack", r |-> 0, x |-> Pack(cu),
            out |-> padding_aligned_wp(Pack(cu))]
  /\ UNCHANGED plan
  /\ PadKeep

\* unpadding_aligned_tp on the result of the transform before
UnpadTpStep ==
  /\ pc = "pure" /\ px.op \in {"pad_tp", "gather_tp", "pad_wp"}
  /\ px' = [op |-> "unpad_tp", of |-> px.op, r |-> px.r, x |-> px.x,
            out |-> unpadding_aligned_tp(px.out)]
  /\ UNCHANGED plan
  /\ PadKeep

\* unpadding_aligned_wp(r, .) on the result of padding_aligned_wp
UnpadWpStep ==
  /\ pc = "pure" /\ px.op = "pad_wp"
  /\ \E d \in 0..(cfg.dp_size - 1) :
       px' = [op |-> "unpad_wp", of |-> px.op, r |-> d, x |-> Block(cu, d),
              out |-> unpadding_aligned_wp(d, px.out)]
  /\ UNCHANGED plan
  /\ PadKeep

PadNext ==
  \/ PlanStep
  \/ PadTpStep
  \/ GatherTpStep
  \/ PadWpStep
  \/ UnpadTpStep
  \/ UnpadWpStep

SpecPad == PadInit /\ [][PadNext]_vars


\* ------------------------------------------------------------- layer machine
\* is_prefill or not self.enable_graph_mode, as tested by forward (904, 925)
NeedsPlanPrefillOnly == is_prefill
NeedsPlan == is_prefill \/ ~cfg.enable_graph_mode

\* is_prefill or not self.enable_graph_mode, as tested by the layer (632, 669)
PrefillOrEagerAlways == TRUE
PrefillOrEager == is_prefill \/ ~cfg.enable_graph_mode

\* self.is_moe (config.n_routed_experts is set)
is_moe(layer_idx) ==
  /\ layer_idx >= cfg.first_k_dense_replace
  /\ layer_idx % cfg.moe_layer_freq = 0

Raise(s, e) == [s EXCEPT !.st = e]
Ev(s, kind, what) == [s EXCEPT !.trace = Append(@, <<kind, what>>)]

\* a + b on tensors: equal row counts, or one row broadcast to the other
AddT(a, b) ==
  IF Len(a) = Len(b) THEN a
  ELSE IF Len(a) = 1 THEN b
  ELSE IF Len(b) = 1 THEN a
  ELSE Err

\* F.pad with a negative amount removes rows
FPadNeg(data, n) ==
  IF n >= 0 THEN FPad(data, n)
  ELSE IF -n <= Len(data) THEN SubSeq(data, 1, Len(data) + n)
  ELSE Err

\* torch.chunk(data, n, dim=0): chunks of ceil(rows / n) rows, possibly fewer
\* than n of them; n empty chunks for an empty tensor
ChunkSize(rows, n) == (rows + n - 1) \div n
NumChunks(rows, n) ==
  IF rows = 0 THEN n
  ELSE (rows + ChunkSize(rows, n) - 1) \div ChunkSize(rows, n)
Chunk(data, n, k) ==
  Slice(data, k * ChunkSize(Len(data), n), (k + 1) * ChunkSize(Len(data), n))

\* ------------------------------------------------------------- process groups
\* members of rank r's group, in group-rank order
GroupSeq(g, r) ==
  CASE g = "TP" -> [i \in 1..cfg.tp_size |-> <<r[1], i - 1>>]
    [] g = "DP" -> [i \in 1..cfg.dp_size |-> <<i - 1, r[2]>>]
    [] g = "WP" -> [i \in 1..(cfg.dp_size * cfg.tp_size) |->
                      <<(i - 1) \div cfg.tp_size, (i - 1) % cfg.tp_size>>]

GroupIdx(g, r) ==
  CASE g = "TP" -> r[2]
    [] g = "DP" -> r[1]
    [] g = "WP" -> r[1] * cfg.tp_size + r[2]

\* A blocking collective on the ranks' states loc.  A rank whose group has a
\* member that is not running waits forever; tensors of different row counts
\* in one group leave the result undefined.
Collective(kind, g, loc) ==
  [r \in Ranks |->
     IF loc[r].st # "run" THEN loc[r]
     ELSE
       LET s == Ev(loc[r], kind, g)
           m == GroupSeq(g, r)
           n == Len(m)
       IN IF \E i \in 1..n : loc[m[i]].st # "run" THEN Raise(s, "hung")
          ELSE IF \E i \in 1..n : Len(loc[m[i]].hs) # Len(s.hs)
            THEN Raise(s, "undefined")
          ELSE CASE kind = "all_reduce" -> s
                 [] kind = "reduce_scatter" ->
                      [s EXCEPT !.hs = Slice(@, GroupIdx(g, r) * (Len(@) \div n),
                                             (GroupIdx(g, r) + 1) * (Len(@) \div n))]
                 [] kind = "all_gather" ->
                      [s EXCEPT !.hs = Concat([i \in 1..n |-> loc[m[i]].hs])]]

\* reduce_scatter_tensor asserts that dim 0 divides by the group size
RSCheck(s, g, r) ==
  IF s.st = "run" /\ Len(s.hs) % Len(GroupSeq(g, r)) # 0
  THEN Raise(s, "AssertionError") ELSE s

\* One stretch of a handler on every running rank: local code, at most one
\* collective, local code.
Step(Pre(_, _), kind, g, Post(_, _)) ==
  LET loc == [r \in Ranks |-> IF rk[r].st = "run" THEN Pre(r, rk[r]) ELSE rk[r]]
      col == IF kind = "none" THEN loc ELSE Collective(kind, g, loc)
  IN rk' = [r \in Ranks |->
              IF rk[r].st = "run" /\ col[r].st = "run" THEN Post(r, col[r])
              ELSE col[r]]

Id(r, s) == s

SomeRun == \E r \in Ranks : rk[r].st = "run"
AllRun == \A r \in Ranks : rk[r].st = "run"

\* ------------------------------------------------------------- decoder layer
\* forward, lines 721-740: residual = hidden_states on a null residual,
\* input_layernorm, self_attn (o_proj leaves the reduction to the caller);
\* with float16 hidden states the residual is multiplied by
\* 1 / routed_scaling_factor in layer 0
\* CustomDeepseekV2MLAAttention.forward, line 528: the path taken is the one
\* chosen by enable_graph_mode at construction
AttnPathByPhase == IF cfg.enable_graph_mode /\ ~is_prefill THEN "graph" ELSE "eager"
AttnPath == IF cfg.enable_graph_mode THEN "graph" ELSE "eager"

\* lines 458-463: o_proj is built with reduce_results=False, the reduction of
\* the attention output is left to post_attention_process
OProjReduceResultsTrue == TRUE
OProjReduceResults == FALSE

\* the attention backend called at 536 and 548 computes on the rank's own
\* tensors and calls no process group
MlaAttnCollective == "none"

\* the collective CustomDeepseekV2MLAAttention.forward issues
AttnCollective ==
  IF OProjReduceResults /\ cfg.tp_size > 1 THEN "all_reduce" ELSE MlaAttnCollective

\* an operation on two tensors notes when their row counts differ
Mark(s, what, a, b) ==
  IF Len(a) # Len(b) THEN [s EXCEPT !.differ = Append(@, what)] ELSE s

AttnPre(r, s) ==
  [s EXCEPT !.res = IF s.res = None THEN s.hs ELSE s.res,
            !.sh = None, !.nres = 0, !.nsh = 0,
            !.attn = AttnPath, !.in_rows = Len(s.hs), !.differ = <<>>,
            !.rpow = IF cfg.fp16 /\ li = 0 THEN @ + 1 ELSE @,
            !.mpow = 0, !.moe_in = None, !.moe_out = None, !.msc = 0,
            !.trace = <<<<"local", "input_layernorm">>, <<"local", "self_attn">>>>]

\* post_attention_layernorm(hidden_states, residual): the rows must agree
Norm(s) ==
  IF Len(s.hs) # Len(s.res)
  THEN Raise(Ev(Mark(s, "norm", s.hs, s.res), "local", "norm"), "ShapeError")
  ELSE Ev(s, "local", "norm")

NormPost(r, s) == Norm(s)

\* lines 639-645: pad to TP alignment, up to the reduce-scatter
PadTpPre(r, s) ==
  LET s1 == Ev(s, "local", "pad_tp")
  IN IF plan = NoPlan THEN Raise(s1, "AttributeError")
     ELSE RSCheck([s1 EXCEPT !.hs = padding_aligned_tp(r[1], s.hs)], "TP", r)

\* lines 646-654: pad and slice the residual at the first MoE layer, normalise
SliceNormPost(r, s) ==
  IF li = cfg.first_k_dense_replace
  THEN LET reduce_scatter_tokens == Len(s.hs)
           padded == FPadNeg(s.res, reduce_scatter_tokens * cfg.tp_size - Len(s.res))
           start == r[2] * reduce_scatter_tokens
       IN IF padded = Err THEN Raise(s, "RuntimeError")
          ELSE Norm([s EXCEPT !.res = Slice(padded, start,
                                            start + reduce_scatter_tokens)])
  ELSE Norm(s)

\* line 658: unpad after the all-gather
UnpadTpPost(r, s) ==
  LET s1 == Ev(s, "local", "unpad_tp")
  IN IF plan = NoPlan THEN Raise(s1, "AttributeError")
     ELSE IF unpadding_aligned_tp(s.hs) = Err THEN Raise(s1, "IndexError")
     ELSE [s1 EXCEPT !.hs = unpadding_aligned_tp(s.hs)]

\* the branch of post_attention_process this layer takes
PostAttnBranchByWidth ==
  IF PrefillOrEager
  THEN IF cfg.dp_size <= 1 THEN "all_reduce" ELSE "reduce_scatter"
  ELSE "graph_decode"
PostAttnBranchEager ==
  IF cfg.dp_size <= 1 \/ li < cfg.first_k_dense_replace
  THEN "all_reduce" ELSE "reduce_scatter"
PostAttnBranch ==
  IF PrefillOrEager
  THEN IF cfg.dp_size <= 1 \/ li < cfg.first_k_dense_replace
       THEN "all_reduce" ELSE "reduce_scatter"
  ELSE "graph_decode"

\* CustomDeepseekV2MLP.forward: down_proj reduces over TP when tp_size > 1
MlpPre(r, s) == Ev(s, "local", "mlp")

\* lines 758-769: hidden_states + residual; residual = None; with float16
\* hidden states the sum is multiplied by 1 / routed_scaling_factor
DenseAddPost(r, s) ==
  LET s1 == Ev(Mark(s, "add_residual", s.hs, s.res), "local", "add_residual")
  IN IF AddT(s.hs, s.res) = Err THEN Raise(s1, "RuntimeError")
     ELSE [s1 EXCEPT !.hs = AddT(s.hs, s.res), !.res = None, !.nres = @ + 1,
                     !.mpow = IF cfg.fp16 THEN @ + 1 ELSE @,
                     !.rpow = IF cfg.fp16 THEN @ + 1 ELSE @]

\* CustomDeepseekV2MoE.forward, lines 356-375: the sliced or whole batch goes
\* through the experts and is scaled; no reduction is made
MoESlicesNever == FALSE
MoESlices == cfg.mc2 /\ ~is_prefill /\ cfg.tp_size > 1

\* self.experts(...) * self.routed_scaling_factor on the rows x
Experts(s, x) ==
  Ev([s EXCEPT !.hs = x, !.moe_out = x, !.msc = @ + 1], "local", "experts")

MoEForward(r, s) ==
  LET s0 == [s EXCEPT !.moe_in = s.hs]
  IN IF MoESlices
     THEN IF r[2] >= NumChunks(Len(s.hs), cfg.tp_size) THEN Raise(s0, "IndexError")
          ELSE Experts(s0, Chunk(s.hs, cfg.tp_size, r[2]))
     ELSE Experts(s0, s.hs)

\* forward, lines 745-752: shared experts on the whole batch, routed experts,
\* their sum
MoEPre(r, s) ==
  LET s1 == IF cfg.n_shared_experts
            THEN Ev([s EXCEPT !.sh = s.hs], "local", "shared_experts")
            ELSE [s EXCEPT !.sh = None]
      s2 == MoEForward(r, s1)
      s3 == IF s2.sh = None THEN s2
            ELSE Ev(Mark(s2, "add_shared", s2.hs, s2.sh), "local", "add_shared")
  IN IF s2.st # "run" \/ s2.sh = None THEN s2
     ELSE IF AddT(s2.hs, s2.sh) = Err THEN Raise(s3, "RuntimeError")
     ELSE [s3 EXCEPT !.hs = AddT(s2.hs, s2.sh), !.nsh = @ + 1]

\* post_moe_process, lines 670 / 705: shared_output + hidden_states
SharedAddPre(r, s) ==
  LET s1 == Ev(IF s.sh = None THEN s ELSE Mark(s, "add_shared", s.sh, s.hs),
               "local", "add_shared")
  IN IF s.sh = None THEN Raise(s1, "TypeError")
     ELSE IF AddT(s.sh, s.hs) = Err THEN Raise(s1, "RuntimeError")
     ELSE [s1 EXCEPT !.hs = AddT(s.sh, s.hs), !.nsh = @ + 1]

\* lines 670-681: add, pad to WP alignment, up to the reduce-scatter
PadWpPre(r, s) ==
  LET s1 == SharedAddPre(r, s)
      s2 == Ev(s1, "local", "pad_wp")
  IN IF s1.st # "run" THEN s1
     ELSE IF plan = NoPlan THEN Raise(s2, "AttributeError")
     ELSE IF padding_aligned_wp(s1.hs) = Err THEN Raise(s2, "RuntimeError")
     ELSE RSCheck([s2 EXCEPT !.hs = padding_aligned_wp(s1.hs)], "WP", r)

\* line 673: return hidden_states, None
DropResidualPost(r, s) == [s EXCEPT !.res = None]

\* lines 683-684 / 707: hidden_states + residual
AddResidual(s) ==
  LET s1 == Ev(Mark(s, "add_residual", s.hs, s.res), "local", "add_residual")
  IN IF AddT(s.hs, s.res) = Err THEN Raise(s1, "RuntimeError")
     ELSE [s1 EXCEPT !.hs = AddT(s.hs, s.res), !.nres = @ + 1]

\* lines 683-684: residual = hidden_states
KeepResidualPost(r, s) == [s EXCEPT !.res = s.hs]
AddKeepResidualPost(r, s) ==
  LET s1 == AddResidual(s)
  IN IF s1.st # "run" THEN s1 ELSE [s1 EXCEPT !.res = s1.hs]

\* lines 707-708: add the residual, return hidden_states, None
AddDropResidualPost(r, s) ==
  LET s1 == AddResidual(s)
  IN IF s1.st # "run" THEN s1 ELSE [s1 EXCEPT !.res = None]

\* lines 688-691: unpad, null residual after the last layer of the stack
UnpadWpPostKeep(r, s) ==
  LET s1 == Ev(s, "local", "unpad_wp")
  IN IF plan = NoPlan THEN Raise(s1, "AttributeError")
     ELSE [s1 EXCEPT !.hs = unpadding_aligned_wp(r[1], s.hs)]
UnpadWpPostGathered(r, s) ==
  LET s1 == Ev(s, "local", "unpad_wp")
  IN IF plan = NoPlan THEN Raise(s1, "AttributeError")
     ELSE [s1 EXCEPT !.res = IF li = NumLayers - 1 THEN None ELSE s.res]
UnpadWpPost(r, s) ==
  LET s1 == Ev(s, "local", "unpad_wp")
  IN IF plan = NoPlan THEN Raise(s1, "AttributeError")
     ELSE [s1 EXCEPT !.hs = unpadding_aligned_wp(r[1], s.hs),
                     !.res = IF li = NumLayers - 1 THEN None ELSE s.res]

\* line 694: self.shared_experts(...) of a layer built without shared experts
\* is a call of None
SharedAgainPre(r, s) ==
  IF ~cfg.n_shared_experts THEN Raise(s, "TypeError")
  ELSE Ev(s, "local", "shared_experts")

\* line 697: the decoder layer has no attribute params_dtype
NoAttrPost(r, s) == Raise(s, "AttributeError")

\* the branch of post_moe_process this layer takes
PostMoeBranch ==
  IF PrefillOrEager
  THEN IF cfg.dp_size <= 1 THEN "all_reduce" ELSE "reduce_scatter"
  ELSE IF cfg.mc2 THEN "graph_mc2" ELSE "graph_all_reduce"

\* ------------------------------------------------------------- actions
Configs ==
  {[dp_size |-> dp, tp_size |-> tp, enable_graph_mode |-> g, mc2 |-> m,
    first_k_dense_replace |-> k, moe_layer_freq |-> f,
    n_shared_experts |-> n, dynamic_quant |-> q, fp16 |-> h,
    pp_split |-> e] :
     dp \in DpSizes, tp \in TpSizes, g \in BOOLEAN, m \in BOOLEAN,
     k \in 0..NumLayers, f \in {1, 2}, n \in BOOLEAN, q \in BOOLEAN,
     h \in BOOLEAN, e \in 0..(NumLayers - 1)}

\* the quantised path of the shared experts matters only where line 694 runs
ValidConfig(c) == c.dynamic_quant => (c.enable_graph_mode /\ c.mc2)

\* one pipeline stage holding every layer, hidden states not float16
OneStage(c) == c.pp_split = 0 /\ ~c.fp16

\* one tensor-parallel rank per data-parallel rank, shared experts present
OneTpRank(c) == c.tp_size = 1 /\ c.n_shared_experts /\ ~c.dynamic_quant

\* the layers [start_layer, end_layer) of the stage running: pp_split = 0 is
\* a single stage, otherwise stage 0 ends and stage 1 starts at pp_split
NumStages == IF cfg.pp_split = 0 THEN 1 ELSE 2
StartLayer(stage) == IF stage = 0 THEN 0 ELSE cfg.pp_split
EndLayerLast == NumLayers
EndLayer == IF pp.stage = NumStages - 1 THEN NumLayers ELSE cfg.pp_split

\* the (hidden_states, residual) pair of every rank
Pair == [r \in Ranks |-> [hidden_states |-> rk[r].hs, residual |-> rk[r].res]]

FreshRank == [hs |-> <<>>, res |-> None, sh |-> None, st |-> "run",
              trace |-> <<>>, nres |-> 0, nsh |-> 0, rpow |-> 0, mpow |-> 0,
              moe_in |-> None, moe_out |-> None, msc |-> 0,
              attn |-> "none", in_rows |-> 0, differ |-> <<>>]

Init ==
  /\ cfg \in {c \in Configs : ValidConfig(c) /\ OneStage(c)}
  /\ plan = NoPlan
  /\ planFresh = FALSE
  /\ maskLocal = FALSE
  /\ pc = "idle"
  /\ is_prefill = FALSE
  /\ cu = [i \in 1..cfg.dp_size |-> 0]
  /\ li = 0
  /\ rk = [r \in Ranks |-> FreshRank]
  /\ px = NoPx
  /\ pp = NoPp

\* CustomDeepseekV2ForCausalLM.forward up to the first layer: the plan block
\* (904-920), then CustomDeepseekV2Model.forward's entry (829-834)
ForwardBegin ==
  /\ pc = "idle" /\ AllRun
  /\ UNCHANGED <<cfg, px>>
  /\ is_prefill' \in BOOLEAN
  /\ cu' \in CuSet(cfg.dp_size, 1..MaxTok)
  /\ plan' = IF NeedsPlan' THEN ComputePlan(cu', cfg.dp_size, cfg.tp_size) ELSE plan
  /\ planFresh' = NeedsPlan'
  /\ maskLocal' = NeedsPlan'
  /\ rk' = [r \in Ranks |-> [FreshRank EXCEPT !.hs = Block(cu', r[1])]]
  /\ li' = 0
  /\ pc' = "attn"
  /\ pp' = [NoPp EXCEPT !.starts = <<Pair'>>]

Keep == UNCHANGED <<cfg, plan, planFresh, maskLocal, is_prefill, cu, px>>

\* the layer returns to the loop of CustomDeepseekV2Model.forward (840-846)
Return ==
  /\ li' = li + 1
  /\ pc' = IF li + 1 < EndLayer THEN "attn" ELSE "end"
  /\ UNCHANGED pp

Goto(p) == pc' = p /\ li' = li /\ UNCHANGED pp

\* CustomDeepseekV2DecoderLayer.forward, lines 721-740
LayerAttn ==
  /\ pc = "attn" /\ SomeRun
  /\ Step(AttnPre, AttnCollective, "TP", Id)
  /\ pc' = "pa0" /\ li' = li
  /\ pp' = [pp EXCEPT !.invoked = Append(@, li)]
  /\ Keep

\* post_attention_process, up to and including its first collective's results
PostAttn0 ==
  /\ pc = "pa0" /\ SomeRun
  /\ \/ /\ PostAttnBranch = "all_reduce"
        /\ Step(Id, "all_reduce", "TP", NormPost)
        /\ Goto("ffn")
     \/ /\ PostAttnBranch = "reduce_scatter"
        /\ Step(PadTpPre, "reduce_scatter", "TP", SliceNormPost)
        /\ Goto("pa1")
     \/ /\ PostAttnBranch = "graph_decode"
        /\ Step(Id, IF cfg.tp_size > 1 THEN "all_reduce" ELSE "none", "TP", Id)
        /\ Goto("pa1")
  /\ Keep

\* post_attention_process, from its second collective to its return
PostAttn1 ==
  /\ pc = "pa1" /\ SomeRun
  /\ \/ /\ PostAttnBranch = "reduce_scatter"
        /\ Step(Id, "all_gather", "WP", UnpadTpPost)
     \/ /\ PostAttnBranch = "graph_decode"
        /\ Step(Id, IF cfg.enable_graph_mode /\ ~cfg.mc2 THEN "all_gather" ELSE "none",
                "DP", NormPost)
  /\ Goto("ffn")
  /\ Keep

\* forward, lines 756-771: the dense MLP, the residual addition, the return
FfnDense ==
  /\ pc = "ffn" /\ SomeRun /\ ~is_moe(li)
  /\ Step(MlpPre, IF cfg.tp_size > 1 THEN "all_reduce" ELSE "none", "TP",
          DenseAddPost)
  /\ Return
  /\ Keep

\* forward, lines 744-752: shared experts, routed experts, their sum
FfnMoE ==
  /\ pc = "ffn" /\ SomeRun /\ is_moe(li)
  /\ Step(MoEPre, "none", "TP", Id)
  /\ Goto("pm0")
  /\ Keep

\* post_moe_process, up to and including its first collective's results
PostMoe0 ==
  /\ pc = "pm0" /\ SomeRun
  /\ \/ /\ PostMoeBranch = "all_reduce"
        /\ Step(SharedAddPre, "all_reduce", "WP", DropResidualPost)
        /\ Return
     \/ /\ PostMoeBranch = "reduce_scatter"
        /\ Step(PadWpPre, "reduce_scatter", "WP", AddKeepResidualPost)
        /\ Goto("pm1")
     \/ /\ PostMoeBranch = "graph_mc2"
        /\ Step(SharedAgainPre,
                IF cfg.dynamic_quant /\ cfg.tp_size > 1 THEN "all_reduce" ELSE "none",
                "TP", NoAttrPost)
        /\ Goto("pm1")
     \/ /\ PostMoeBranch = "graph_all_reduce"
        /\ Step(SharedAddPre, "all_reduce", "WP", AddDropResidualPost)
        /\ Return
  /\ Keep

\* post_moe_process, lines 686-691: all-gather, unpad, return
PostMoe1 ==
  /\ pc = "pm1" /\ SomeRun
  /\ PostMoeBranch = "reduce_scatter"
  /\ Step(Id, "all_gather", "WP", UnpadWpPost)
  /\ Return
  /\ Keep

\* CustomDeepseekV2Model.forward's final norm on the last stage (854) and
\* the end of CustomDeepseekV2ForCausalLM.forward (925-927): del
\* atten_unpad_mask
ForwardEnd ==
  /\ pc = "end" /\ AllRun
  /\ pp.stage = NumStages - 1
  /\ maskLocal' = FALSE
  /\ planFresh' = FALSE
  /\ pc' = "idle"
  /\ pp' = [pp EXCEPT !.norms = Append(@, pp.stage)]
  /\ UNCHANGED <<cfg, plan, is_prefill, cu, li, rk, px>>

\* a stage that is not the last returns IntermediateTensors (848-852), and
\* its CustomDeepseekV2ForCausalLM.forward ends (925-927)
StageReturn ==
  /\ pc = "end" /\ AllRun
  /\ pp.stage < NumStages - 1
  /\ maskLocal' = FALSE
  /\ planFresh' = FALSE
  /\ pc' = "msg"
  /\ pp' = [pp EXCEPT !.msgs = Append(@, Pair)]
  /\ UNCHANGED <<cfg, plan, is_prefill, cu, li, rk, px>>

\* the next stage's CustomDeepseekV2ForCausalLM.forward: its plan block
\* (904-920), then CustomDeepseekV2Model.forward reading intermediate_tensors
\* (835-838)
StageBegin ==
  /\ pc = "msg"
  /\ plan' = IF NeedsPlan THEN ComputePlan(cu, cfg.dp_size, cfg.tp_size) ELSE plan
  /\ planFresh' = NeedsPlan
  /\ maskLocal' = NeedsPlan
  /\ rk' = [r \in Ranks |->
              [rk[r] EXCEPT !.hs = pp.msgs[Len(pp.msgs)][r].hidden_states,
                            !.res = pp.msgs[Len(pp.msgs)][r].residual,
                            !.trace = <<>>]]
  /\ pp' = [pp EXCEPT !.stage = @ + 1,
                      !.starts = Append(@, pp.msgs[Len(pp.msgs)])]
  /\ li' = StartLayer(pp.stage + 1)
  /\ pc' = "attn"
  /\ UNCHANGED <<cfg, is_prefill, cu, px>>

Next ==
  \/ ForwardBegin
  \/ LayerAttn
  \/ PostAttn0
  \/ PostAttn1
  \/ FfnDense
  \/ FfnMoE
  \/ PostMoe0
  \/ PostMoe1
  \/ ForwardEnd

Spec == Init /\ [][Next]_vars

\* ------------------------------------------------------------- layer stack
\* The same forward pass over one or two pipeline stages, with or without
\* float16 hidden states, on one tensor-parallel rank per data-parallel rank.
StackInit ==
  /\ cfg \in {c \in Configs : ValidConfig(c) /\ OneTpRank(c)}
  /\ plan = NoPlan
  /\ planFresh = FALSE
  /\ maskLocal = FALSE
  /\ pc = "idle"
  /\ is_prefill = FALSE
  /\ cu = [i \in 1..cfg.dp_size |-> 0]
  /\ li = 0
  /\ rk = [r \in Ranks |-> FreshRank]
  /\ px = NoPx
  /\ pp = NoPp

StackNext ==
  \/ Next
  \/ StageReturn
  \/ StageBegin

SpecStack == StackInit /\ [][StackNext]_vars

\* ------------------------------------------------------------- construction
\* The constructors of the MLP, shared-expert MLP, MoE and decoder-layer
\* blocks, applied to arbitrary configurations.  A constructor that raises
\* binds no object.
MaxExperts == 3

\* getattr(config, "rope_theta", 10000)
DefaultRopeTheta == 10000
\* getattr(config, "max_position_embeddings", 8192)
DefaultMaxPosition == 8192

Built(kind, rope) == [status |-> "ok", obj |-> kind, rope |-> rope]
Failed(e) == [status |-> e, obj |-> "none", rope |-> <<>>]

\* CustomDeepseekV2MLP.__init__
MLPInit(hidden_act) ==
  IF hidden_act # "silu" THEN Failed("ValueError") ELSE Built("mlp", <<>>)

\* CustomDeepseekV2SharedExpertMLP.__init__
SharedExpertMLPInit(hidden_act) ==
  IF hidden_act # "silu" THEN Failed("ValueError") ELSE Built("shared_mlp", <<>>)

\* CustomDeepseekV2MoE.__init__: the width test, the activation test, the
\* shared experts; tp_size > None is a TypeError
MoEInitNoWidthTest(c) ==
  IF c.hidden_act # "silu" THEN Failed("ValueError") ELSE Built("moe", <<>>)
MoEInit(c) ==
  IF ~c.has_routed_experts THEN Failed("TypeError")
  ELSE IF c.tp_size > c.n_routed_experts THEN Failed("ValueError")
  ELSE IF c.hidden_act # "silu" THEN Failed("ValueError")
  ELSE IF c.n_shared_experts /\ SharedExpertMLPInit(c.hidden_act).status # "ok"
    THEN SharedExpertMLPInit(c.hidden_act)
  ELSE Built("moe", <<>>)

\* CustomDeepseekV2DecoderLayer.__init__, lines 567-570: the rope parameters
\* handed to the attention block
RopeArgsNoDefault(c) ==
  <<IF c.has_rope_theta THEN c.rope_theta ELSE 0,
    IF c.has_rope_scaling THEN "deepseek_yarn" ELSE "none",
    IF c.has_max_position_embeddings THEN c.max_position_embeddings ELSE 0>>
RopeArgs(c) ==
  <<IF c.has_rope_theta THEN c.rope_theta ELSE DefaultRopeTheta,
    IF c.has_rope_scaling THEN "deepseek_yarn" ELSE "none",
    IF c.has_max_position_embeddings THEN c.max_position_embeddings
    ELSE DefaultMaxPosition>>

\* CustomDeepseekV2MLAAttention.__init__: assert num_heads % tp_size == 0
MLAAttentionInit(c, rope) ==
  IF c.num_attention_heads % c.tp_size # 0 THEN Failed("AssertionError")
  ELSE Built("attn", rope)

\* CustomDeepseekV2DecoderLayer.__init__: attention, then the MoE or MLP block
DecoderLayerInit(c) ==
  LET attn == MLAAttentionInit(c, RopeArgs(c))
      moe == /\ c.has_routed_experts
             /\ c.layer_idx >= c.first_k_dense_replace
             /\ c.layer_idx % c.moe_layer_freq = 0
      mlp == IF moe THEN MoEInit(c) ELSE MLPInit(c.hidden_act)
  IN IF attn.status # "ok" THEN attn
     ELSE IF mlp.status # "ok" THEN mlp
     ELSE Built("layer", attn.rope)

BuildConfigs ==
  {[hidden_act |-> a, has_routed_experts |-> hr, n_routed_experts |-> n,
    n_shared_experts |-> sh, tp_size |-> tp, num_attention_heads |-> nh,
    has_rope_theta |-> rt, rope_theta |-> 1000000,
    has_rope_scaling |-> rs,
    has_max_position_embeddings |-> mp, max_position_embeddings |-> 4096,
    layer_idx |-> l, first_k_dense_replace |-> k, moe_layer_freq |-> 1] :
     a \in {"silu", "gelu"}, hr \in BOOLEAN, n \in 1..MaxExperts,
     sh \in BOOLEAN, tp \in TpSizesPad, nh \in {2, 3}, rt \in BOOLEAN,
     rs \in BOOLEAN, mp \in BOOLEAN, l \in {0, 1}, k \in {0, 1}}

BuildInit ==
  /\ cfg \in {c \in BuildConfigs : ~c.has_routed_experts => c.n_routed_experts = 1}
  /\ plan = NoPlan
  /\ planFresh = FALSE
  /\ maskLocal = FALSE
  /\ pc = "build"
  /\ is_prefill = FALSE
  /\ cu = <<>>
  /\ li = 0
  /\ rk = NoRanks
  /\ px = NoPx
  /\ pp = NoPp

BuildKeep ==
  UNCHANGED <<cfg, plan, planFresh, maskLocal, pc, is_prefill, cu, li, rk, pp>>

BuildMLP ==
  /\ pc = "build"
  /\ px' = [op |-> "MLP", res |-> MLPInit(cfg.hidden_act), used |-> FALSE]
  /\ BuildKeep

BuildSharedExpertMLP ==
  /\ pc = "build"
  /\ px' = [op |-> "SharedExpertMLP",
            res |-> SharedExpertMLPInit(cfg.hidden_act), used |-> FALSE]
  /\ BuildKeep

BuildMoE ==
  /\ pc = "build"
  /\ px' = [op |-> "MoE", res |-> MoEInit(cfg), used |-> FALSE]
  /\ BuildKeep

BuildDecoderLayer ==
  /\ pc = "build"
  /\ px' = [op |-> "DecoderLayer", res |-> DecoderLayerInit(cfg), used |-> FALSE]
  /\ BuildKeep

\* forward can only be called on an object the constructor returned
CallForward ==
  /\ pc = "build" /\ px.op # "none"
  /\ px.res.status = "ok" /\ ~px.used
  /\ px' = [px EXCEPT !.used = TRUE]
  /\ BuildKeep

BuildNext ==
  \/ BuildMLP
  \/ BuildSharedExpertMLP
  \/ BuildMoE
  \/ BuildDecoderLayer
  \/ CallForward

SpecBuild == BuildInit /\ [][BuildNext]_vars

\* ------------------------------------------------------------- observations
\* the collective calls a rank has issued in the current layer, in order
CollectiveCalls(r) == SelectSeq(rk[r].trace, LAMBDA e : e[1] # "local")

\* the rank has called one of the four pad / unpad transforms in this layer
UsesTransform(r) ==
  \E i \in 1..Len(rk[r].trace) :
     rk[r].trace[i] \in {<<"local", "pad_tp">>, <<"local", "unpad_tp">>,
                         <<"local", "pad_wp">>, <<"local", "unpad_wp">>}

\* layer li - 1 has just returned to the loop of the stack
Returned == pc \in {"attn", "end"} /\ li >= 1

\* the tensor-parallel ranks of data-parallel rank d have all come out of the
\* reduce-scatter of post_attention_process
Scattered(d) ==
  /\ pc = "pa1" /\ PostAttnBranch = "reduce_scatter"
  /\ \A t \in 0..(cfg.tp_size - 1) : rk[<<d, t>>].st = "run"

\* the tensor they handed to the reduce-scatter: their slices in rank order
ScatterInput(d) == Concat([t \in 1..cfg.tp_size |-> rk[<<d, t - 1>>].hs])

\* what the rank did in post_attention_process of the layer running: its
\* operations after input_layernorm and self_attn
PostAttnTrace(r) == SubSeq(rk[r].trace, 3, Len(rk[r].trace))

\* the rank has run post_attention_process up to its normalisation or beyond
PostAttnDone(r) ==
  /\ pc = "ffn"
  /\ \E i \in 1..Len(rk[r].trace) : rk[r].trace[i] = <<"local", "norm">>
  /\ rk[r].st \in {"run", "ShapeError"}

\* the reductions over the TP group the rank has issued in this layer before
\* its post-attention normalisation
TpReductionsBeforeNorm(r) ==
  {i \in 1..Len(rk[r].trace) :
     /\ rk[r].trace[i] \in {<<"all_reduce", "TP">>, <<"reduce_scatter", "TP">>}
     /\ \A j \in 1..i : rk[r].trace[j] # <<"local", "norm">>}

\* the padded index (0-based) of each real token, in the order in which
\* padded_data[atten_unpad_mask, :] keeps the rows
RealToPadded ==
  MaskSelect([k \in 1..Len(plan.atten_unpad_mask) |-> k - 1],
             plan.atten_unpad_mask)

\* position of the first / last occurrence of event e in a trace, 0 if none
FirstIdx(tr, e) ==
  IF \E i \in 1..Len(tr) : tr[i] = e
  THEN CHOOSE i \in 1..Len(tr) : tr[i] = e /\ \A j \in 1..(i - 1) : tr[j] # e
  ELSE 0
LastIdx(tr, e) ==
  IF \E i \in 1..Len(tr) : tr[i] = e
  THEN CHOOSE i \in 1..Len(tr) : tr[i] = e /\ \A j \in (i + 1)..Len(tr) : tr[j] # e
  ELSE 0

\* number of occurrences of event e in a trace
Count(tr, e) == Cardinality({i \in 1..Len(tr) : tr[i] = e})

\* the rank has returned from an MoE layer whose post_moe_process took the
\* prefill / eager branch with dp_size > 1
ReturnedEagerMoE(r) ==
  /\ Returned /\ rk[r].st = "run" /\ is_moe(li - 1)
  /\ (is_prefill \/ ~cfg.enable_graph_mode) /\ cfg.dp_size > 1

\* post_moe_process has ended in its graph-mode decode branch on a rank that
\* ran the shared and the routed experts of the layer
PostMoeGraphDone(r) ==
  /\ ~PrefillOrEager /\ cfg.n_shared_experts
  /\ \/ pc = "pm1" /\ is_moe(li)
     \/ Returned /\ is_moe(li - 1)
  /\ Count(rk[r].trace, <<"local", "experts">>) = 1
  /\ rk[r].moe_out # None

\* the rank has called CustomDeepseekV2MoE.forward in the layer running
CalledMoE(r) == pc = "pm0" /\ rk[r].moe_in # None

\* no collective call follows the rank's shared-expert and expert calls
NoCollectiveSinceExperts(r) ==
  \A i \in 1..Len(rk[r].trace), j \in 1..Len(rk[r].trace) :
     (/\ rk[r].trace[i] \in {<<"local", "shared_experts">>, <<"local", "experts">>}
      /\ j > i) => rk[r].trace[j][1] = "local"

\* ------------------------------------------------------------- claims
\* C1: with the phase, the mode and the configuration shared by all ranks,
\* every rank issues the same sequence of collective calls in every layer
\* (same kind, same group, same order), whatever its rank index and token
\* count, and no rank is left waiting in a collective forever.
C1_SameCollectivesNoHang ==
  \A r1 \in Ranks, r2 \in Ranks :
     /\ CollectiveCalls(r1) = CollectiveCalls(r2)
     /\ rk[r1].st # "hung"

\* C2 (as stated): for every rank r, unpadding_aligned_tp applied to
\* padding_aligned_tp(r, x), x being rank r's lengths[r] rows, returns x.
C2_RoundTripPerRank ==
  (px.op = "unpad_tp" /\ px.of = "pad_tp") => px.out = px.x

\* C2 (amended): unpadding_aligned_tp applied to the rank-order concatenation
\* of the ranks' padding_aligned_tp(r, x_r) returns the x_r packed in rank
\* order; on one rank's padded tensor alone it returns x when dp_size = 1.
C2_RoundTripGathered ==
  /\ (px.op = "unpad_tp" /\ px.of = "gather_tp") => px.out = Pack(cu)
  /\ (px.op = "unpad_tp" /\ px.of = "pad_tp" /\ cfg.dp_size = 1) => px.out = px.x

C2_Witness ==
  /\ px.op = "unpad_tp" /\ px.of = "gather_tp"
  /\ cfg.dp_size = 2 /\ cfg.tp_size = 2 /\ cu = <<5, 8>>
  /\ px.out = <<TokenId(0, 1), TokenId(0, 2), TokenId(0, 3), TokenId(0, 4),
                TokenId(0, 5), TokenId(1, 1), TokenId(1, 2), TokenId(1, 3)>>

\* C3: unpadding_aligned_wp(r, padding_aligned_wp(p)), p packing the ranks'
\* blocks contiguously in rank order, is rank r's block: lengths[r] rows in
\* their original order.
C3_WpRoundTrip ==
  px.op = "unpad_wp" =>
     /\ px.out = Tokens(px.r, plan.lengths[px.r + 1])
     /\ Len(px.out) = cu[px.r + 1] - (IF px.r = 0 THEN 0 ELSE cu[px.r])

C3_Witness ==
  /\ px.op = "unpad_wp" /\ px.r = 1 /\ cfg.tp_size = 2 /\ cu = <<5, 8>>
  /\ px.out = <<TokenId(1, 1), TokenId(1, 2), TokenId(1, 3)>>

\* C4: the number of true entries of atten_unpad_mask equals the sum of the
\* lengths over the data-parallel ranks, and the mask has dp_size * max_length
\* entries.
C4_MaskCount ==
  plan # NoPlan =>
     /\ CountTrue(plan.atten_unpad_mask) = cu[Len(cu)]
     /\ Len(plan.atten_unpad_mask) = cfg.dp_size * plan.max_length

C4_Witness ==
  /\ plan # NoPlan /\ cu = <<2, 6>> /\ cfg.tp_size = 3
  /\ CountTrue(plan.atten_unpad_mask) = 6
  /\ Len(plan.atten_unpad_mask) = 12

\* C5: lengths[r] is rank r's token count, max_length is the smallest multiple
\* of tp that is >= every length, pad_size[r] = max_length - lengths[r] >= 0;
\* lengths = [5, 3] with tp = 2 gives max_length = 6, pad_size = [1, 3] and 8
\* true mask entries.
C5_PlanValues ==
  plan # NoPlan =>
     /\ Len(plan.lengths) = cfg.dp_size
     /\ \A r \in 1..cfg.dp_size :
          /\ plan.lengths[r] >= 0
          /\ SumSeq(SubSeq(plan.lengths, 1, r)) = cu[r]
          /\ plan.lengths[r] <= plan.max_length
          /\ plan.pad_size[r] = plan.max_length - plan.lengths[r]
          /\ plan.pad_size[r] >= 0
     /\ plan.max_length % cfg.tp_size = 0
     /\ \E r \in 1..cfg.dp_size : plan.lengths[r] > plan.max_length - cfg.tp_size
     /\ (cu = <<5, 8>> /\ cfg.tp_size = 2) =>
          /\ plan.lengths = <<5, 3>>
          /\ plan.max_length = 6
          /\ plan.pad_size = <<1, 3>>
          /\ CountTrue(plan.atten_unpad_mask) = 8

C5_Witness ==
  /\ plan # NoPlan /\ cu = <<5, 8>> /\ cfg.tp_size = 2
  /\ plan.max_length = 6 /\ plan.pad_size = <<1, 3>>

\* C6: a pad / unpad transform is only ever called in a pass that computed
\* the plan from its own token counts, and never in a decode pass under graph
\* mode.
C6_TransformsReadFreshPlan ==
  pc # "idle" =>
     \A r \in Ranks :
        UsesTransform(r) =>
           /\ plan # NoPlan
           /\ planFresh
           /\ plan.cu_tokens_across_dp_cpu = cu
           /\ (is_prefill \/ ~cfg.enable_graph_mode)

C6_Witness ==
  /\ pc = "end" /\ AllRun /\ ~is_prefill /\ cfg.dp_size = 2
  /\ \A r \in Ranks : UsesTransform(r)
  /\ plan.cu_tokens_across_dp_cpu = cu /\ cu = <<1, 3>>

\* C7: a pass that is a prefill or runs in eager mode enters its first layer
\* with the plan recomputed from its token counts; a decode pass under graph
\* mode leaves the stored plan as it was; no later step of a pass changes the
\* plan.
C7_PlanPerPass ==
  [][/\ (pc = "idle" /\ pc' # "idle") =>
          IF is_prefill' \/ ~cfg.enable_graph_mode
          THEN /\ planFresh'
               /\ plan'.cu_tokens_across_dp_cpu = cu'
               /\ plan'.lengths = Lengths(cu')
          ELSE plan' = plan
     /\ pc # "idle" => plan' = plan]_vars

C7_Witness ==
  /\ pc = "end" /\ AllRun /\ planFresh /\ li = NumLayers
  /\ cfg.dp_size = 2 /\ cu = <<2, 3>> /\ plan.lengths = <<2, 1>>

\* C8: once forward has returned, no plan remains stored in the process-wide
\* state.
C8_PlanDiscardedAtPassEnd == pc = "idle" => plan = NoPlan

C10_ResidualAddedOnce ==
  \A r \in Ranks : (Returned /\ rk[r].st = "run") => rk[r].nres = 1

\* C11: for an MoE layer with shared experts, the value that enters the
\* layer's final post-MoE reduction contains the shared-expert output exactly
\* once (routed_scaling_factor * routed + shared), in every branch.
C11_SharedAddedOnce ==
  \A r \in Ranks :
     (/\ Returned /\ rk[r].st = "run"
      /\ is_moe(li - 1) /\ cfg.n_shared_experts) => rk[r].nsh = 1

\* C12 (as stated): at every layer boundary the residual is null or has as
\* many rows as the hidden state.
C12_ResidualRowsAsHidden ==
  \A r \in Ranks :
     (Returned /\ rk[r].st = "run") =>
        (rk[r].res = None \/ Len(rk[r].res) = Len(rk[r].hs))

\* C12 (amended): at every layer boundary the residual is null, or it is the
\* rank's reduce-scattered slice of max_length / tp_size rows while the hidden
\* state has the rank's lengths[dp_rank] rows.
C12_ResidualRowsScattered ==
  \A r \in Ranks :
     (Returned /\ rk[r].st = "run" /\ rk[r].res # None) =>
        /\ Len(rk[r].res) = plan.max_length \div cfg.tp_size
        /\ Len(rk[r].hs) = plan.lengths[r[1] + 1]

C12_Witness ==
  /\ Returned /\ AllRun /\ cfg.dp_size = 2 /\ cfg.tp_size = 2 /\ cu = <<3, 4>>
  /\ \A r \in Ranks : rk[r].res # None /\ Len(rk[r].res) = 2
  /\ Len(rk[<<0, 0>>].hs) = 3 /\ Len(rk[<<1, 0>>].hs) = 1

\* C13 (as stated): CustomDeepseekV2MoE.forward on T rows returns T rows, the
\* experts' output multiplied once by routed_scaling_factor, and issues no
\* collective, in every phase, with or without VLLM_ENABLE_MC2.
C13_MoeForwardKeepsRows ==
  \A r \in Ranks :
     CalledMoE(r) =>
        /\ rk[r].moe_out # None
        /\ Len(rk[r].moe_out) = Len(rk[r].moe_in)
        /\ rk[r].msc = 1
        /\ NoCollectiveSinceExperts(r)

\* C13 (amended): the same, except that in a decode pass with VLLM_ENABLE_MC2
\* set and tp_size > 1 the rank returns only its chunk of ceil(T / tp_size)
\* rows (fewer for the last chunk), and raises IndexError when the batch has
\* fewer chunks than its tp rank index.
C13_MoeForwardRows ==
  \A r \in Ranks :
     CalledMoE(r) =>
        LET T == Len(rk[r].moe_in)
            c == (T + cfg.tp_size - 1) \div cfg.tp_size
        IN /\ NoCollectiveSinceExperts(r)
           /\ IF cfg.mc2 /\ ~is_prefill /\ cfg.tp_size > 1
              THEN IF r[2] * c < T
                   THEN /\ rk[r].msc = 1
                        /\ rk[r].moe_out = SubSeq(rk[r].moe_in, r[2] * c + 1,
                                                   Min((r[2] + 1) * c, T))
                   ELSE rk[r].st = "IndexError" /\ rk[r].moe_out = None
              ELSE rk[r].msc = 1 /\ rk[r].moe_out = rk[r].moe_in

C13_Witness ==
  /\ cfg.tp_size = 2 /\ cfg.mc2 /\ ~is_prefill /\ CalledMoE(<<0, 1>>)
  /\ Len(rk[<<0, 1>>].moe_in) = 3 /\ Len(rk[<<0, 1>>].moe_out) = 1
  /\ Len(rk[<<0, 0>>].moe_out) = 2

\* C14: in the prefill / eager reduce-scatter branch, padding_aligned_tp on
\* rank r appends exactly pad_size[r] zero rows to the rank's rows, so the
\* padded tensor has max_length rows on every data-parallel rank, a multiple
\* of tp_size, and the reduce-scatter leaves max_length / tp_size rows on
\* every rank.
C14_PaddedToMaxLength ==
  \A d \in 0..(cfg.dp_size - 1) :
     Scattered(d) =>
        /\ ScatterInput(d) = Block(cu, d) \o Zeros(plan.pad_size[d + 1])
        /\ Len(ScatterInput(d)) = plan.max_length
        /\ plan.max_length % cfg.tp_size = 0
        /\ \A t \in 0..(cfg.tp_size - 1) :
             Len(rk[<<d, t>>].hs) = plan.max_length \div cfg.tp_size

\* C15: building an MLP, shared-expert MLP or MoE block with an activation
\* other than "silu", or an MoE block with a tensor-parallel width greater than
\* the number of routed experts, raises ValueError in the constructor: no
\* object is bound, and forward is never called on one.
C15_ConstructionErrors ==
  (pc = "build" /\ px.op \in {"MLP", "SharedExpertMLP", "MoE"}) =>
     /\ cfg.hidden_act # "silu" =>
          px.res.status \in {"ValueError", "TypeError"}
     /\ (cfg.hidden_act # "silu" /\ (px.op = "MoE" => cfg.has_routed_experts)) =>
          px.res.status = "ValueError"
     /\ (px.op = "MoE" /\ cfg.has_routed_experts
            /\ cfg.tp_size > cfg.n_routed_experts) => px.res.status = "ValueError"
     /\ px.res.status # "ok" => (px.res.obj = "none" /\ ~px.used)
     /\ (/\ cfg.hidden_act = "silu"
         /\ px.op = "MoE" => (/\ cfg.has_routed_experts
                              /\ cfg.tp_size <= cfg.n_routed_experts)) =>
          px.res.status = "ok"

C15_Witness ==
  /\ pc = "build" /\ px.op = "MoE" /\ cfg.has_routed_experts
  /\ cfg.hidden_act = "silu" /\ cfg.tp_size = 3 /\ cfg.n_routed_experts = 2
  /\ px.res.status = "ValueError" /\ px.res.obj = "none"

\* C16 (as stated): constructing a decoder layer from a configuration that
\* lacks rope_theta, rope_scaling or max_position_embeddings fails.
C16_MissingRopeFails ==
  (/\ pc = "build" /\ px.op = "DecoderLayer"
   /\ (~cfg.has_rope_theta \/ ~cfg.has_rope_scaling
         \/ ~cfg.has_max_position_embeddings)) => px.res.status # "ok"

\* C16 (amended): a missing rope parameter never makes the construction of a
\* decoder layer fail; the layer is built with the default of each missing
\* parameter (rope_theta 10000, no rope scaling, max_position_embeddings
\* 8192), and fails only by the attention block's head-count assertion or the
\* MLP / MoE block's own configuration errors.
C16_MissingRopeDefaults ==
  (pc = "build" /\ px.op = "DecoderLayer") =>
     /\ px.res.status = "ok" <=>
          /\ cfg.num_attention_heads % cfg.tp_size = 0
          /\ cfg.hidden_act = "silu"
          /\ (cfg.has_routed_experts /\ cfg.layer_idx >= cfg.first_k_dense_replace)
                => cfg.tp_size <= cfg.n_routed_experts
     /\ px.res.status = "ok" =>
          /\ px.res.rope[1] = (IF cfg.has_rope_theta THEN cfg.rope_theta ELSE 10000)
          /\ px.res.rope[2] = (IF cfg.has_rope_scaling THEN "deepseek_yarn" ELSE "none")
          /\ px.res.rope[3] = (IF cfg.has_max_position_embeddings
                               THEN cfg.max_position_embeddings ELSE 8192)

C16_Witness ==
  /\ pc = "build" /\ px.op = "DecoderLayer" /\ px.res.status = "ok" /\ px.used
  /\ ~cfg.has_rope_theta /\ ~cfg.has_rope_scaling
  /\ ~cfg.has_max_position_embeddings
  /\ px.res.rope = <<10000, "none", 8192>>

\* C17: the stack calls the layers start_layer .. end_layer - 1 of each stage
\* once each in increasing order; the first stage starts with a null residual
\* and every later stage from the pair the stage before returned as its
\* inter-stage message; a stage that is not the last returns that message
\* without the final normalisation, which only the last stage applies.
C17_LayerStack ==
  /\ Len(pp.invoked) <= NumLayers
  /\ \A i \in 1..Len(pp.invoked) : pp.invoked[i] = i - 1
  /\ (pc = "end" /\ AllRun) => Len(pp.invoked) = EndLayer
  /\ pp.starts # <<>> => \A r \in Ranks : pp.starts[1][r].residual = None
  /\ Len(pp.starts) <= NumStages /\ Len(pp.msgs) <= NumStages - 1
  /\ \A i \in 2..Len(pp.starts) : pp.starts[i] = pp.msgs[i - 1]
  /\ Len(pp.norms) <= 1
  /\ \A i \in 1..Len(pp.norms) : pp.norms[i] = NumStages - 1
  /\ pc = "msg" => (pp.norms = <<>> /\ Len(pp.invoked) = cfg.pp_split)
  /\ (pc = "idle" /\ pp.starts # <<>>) =>
        /\ Len(pp.invoked) = NumLayers
        /\ Len(pp.msgs) = NumStages - 1
        /\ pp.norms = <<NumStages - 1>>

C17_Witness ==
  /\ pc = "idle" /\ cfg.pp_split = 1 /\ cfg.dp_size = 2
  /\ Len(pp.invoked) = NumLayers /\ pp.norms = <<1>>
  /\ Len(pp.msgs) = 1 /\ pp.msgs[1][<<0, 0>>].residual # None
  /\ pp.starts[2] = pp.msgs[1]

\* C18: with float16 hidden states the factor 1 / routed_scaling_factor is
\* applied to the residual once, in layer 0 only, and to the dense MLP path's
\* output once per dense layer; the residual contribution carried through the
\* stack is never multiplied by it a second time.
C18_ResidualScaledOnce ==
  \A r \in Ranks :
     rk[r].st = "run" =>
        /\ rk[r].rpow <= 1
        /\ (Returned /\ cfg.fp16) => rk[r].rpow = 1
        /\ (Returned /\ cfg.fp16 /\ ~is_moe(li - 1)) => rk[r].mpow = 1

\* C19: in a prefill or eager pass, post_attention_process does exactly one
\* all-reduce over the TP group and then the normalisation, with no pad /
\* unpad, if dp_size <= 1 or the layer precedes the first MoE layer; otherwise
\* it pads to TP alignment, reduce-scatters over the TP group, normalises,
\* all-gathers over the WP group and unpads, in this order, with no other
\* collective.
C19_PostAttentionEager ==
  (pc = "ffn" /\ (is_prefill \/ ~cfg.enable_graph_mode)) =>
     \A r \in Ranks :
        rk[r].st = "run" =>
           PostAttnTrace(r) =
              IF cfg.dp_size <= 1 \/ li < cfg.first_k_dense_replace
              THEN <<<<"all_reduce", "TP">>, <<"local", "norm">>>>
              ELSE <<<<"local", "pad_tp">>, <<"reduce_scatter", "TP">>,
                     <<"local", "norm">>, <<"all_gather", "WP">>,
                     <<"local", "unpad_tp">>>>

C19_Witness ==
  /\ pc = "ffn" /\ ~cfg.enable_graph_mode /\ AllRun
  /\ cfg.dp_size = 2 /\ cfg.tp_size = 2 /\ li = 1 /\ cfg.first_k_dense_replace = 1
  /\ CollectiveCalls(<<1, 1>>) = <<<<"reduce_scatter", "TP">>, <<"all_gather", "WP">>>>
  /\ UsesTransform(<<1, 1>>)

\* C20: in a decode pass under graph mode, post_attention_process does an
\* all-reduce over the TP group iff tp_size > 1, then an all-gather over the DP
\* group iff VLLM_ENABLE_MC2 is not set, then the normalisation; no
\* reduce-scatter, no pad / unpad.
C20_PostAttentionGraphDecode ==
  (~is_prefill /\ cfg.enable_graph_mode) =>
     \A r \in Ranks :
        PostAttnDone(r) =>
           PostAttnTrace(r) =
              (IF cfg.tp_size > 1 THEN <<<<"all_reduce", "TP">>>> ELSE <<>>)
              \o (IF ~cfg.mc2 THEN <<<<"all_gather", "DP">>>> ELSE <<>>)
              \o <<<<"local", "norm">>>>

C20_Witness ==
  /\ pc = "ffn" /\ ~is_prefill /\ cfg.enable_graph_mode /\ ~cfg.mc2
  /\ cfg.tp_size = 2 /\ cfg.dp_size = 2 /\ li = 0 /\ cu = <<2, 4>>
  /\ PostAttnDone(<<1, 1>>) /\ Len(rk[<<1, 1>>].hs) = 4
  /\ CollectiveCalls(<<1, 1>>) = <<<<"all_reduce", "TP">>, <<"all_gather", "DP">>>>

\* C21 (as stated): in post_moe_process of an MoE layer, prefill or eager with
\* dp_size > 1, the residual is added only after the final all-gather and
\* unpad, and the returned residual is null iff the layer is the last of the
\* stack.
C21_ResidualAfterGather ==
  \A r \in Ranks :
     ReturnedEagerMoE(r) =>
        /\ FirstIdx(rk[r].trace, <<"local", "add_residual">>) >
              LastIdx(rk[r].trace, <<"local", "unpad_wp">>)
        /\ (rk[r].res = None) <=> (li - 1 = NumLayers - 1)

\* C21 (amended): there the residual is added once, after the reduce-scatter
\* over the WP group and before the final all-gather and unpad, and the
\* returned residual is null iff the layer is the last of the stack.
C21_ResidualBeforeGather ==
  \A r \in Ranks :
     ReturnedEagerMoE(r) =>
        /\ Count(rk[r].trace, <<"local", "add_residual">>) = 1
        /\ Count(rk[r].trace, <<"reduce_scatter", "WP">>) = 1
        /\ FirstIdx(rk[r].trace, <<"reduce_scatter", "WP">>) <
              FirstIdx(rk[r].trace, <<"local", "add_residual">>)
        /\ FirstIdx(rk[r].trace, <<"local", "add_residual">>) <
              LastIdx(rk[r].trace, <<"all_gather", "WP">>)
        /\ LastIdx(rk[r].trace, <<"all_gather", "WP">>) <
              FirstIdx(rk[r].trace, <<"local", "unpad_wp">>)
        /\ Count(rk[r].trace, <<"local", "unpad_wp">>) = 1
        /\ (rk[r].res = None) <=> (li - 1 = NumLayers - 1)

C21_Witness ==
  /\ cfg.dp_size = 2 /\ cfg.tp_size = 2 /\ AllRun /\ li = 1 /\ cu = <<3, 5>>
  /\ \A r \in Ranks : ReturnedEagerMoE(r) /\ rk[r].res # None
  /\ rk[<<1, 0>>].hs = Tokens(1, 2)

\* C22: in the graph-mode decode branch of post_moe_process, with MC2 an
\* all-gather over the TP group produces the full batch (tp_size times the
\* chunk's rows) before the shared output and the residual are added; without
\* MC2 exactly one all-reduce over the WP group precedes the residual addition
\* and there is no all-gather.
C22_GraphDecodePostMoe ==
  \A r \in Ranks :
     PostMoeGraphDone(r) =>
        /\ rk[r].st = "run"
        /\ Count(rk[r].trace, <<"local", "add_residual">>) = 1
        /\ IF cfg.mc2
           THEN /\ Count(rk[r].trace, <<"all_gather", "TP">>) = 1
                /\ LastIdx(rk[r].trace, <<"all_gather", "TP">>) <
                      LastIdx(rk[r].trace, <<"local", "add_shared">>)
                /\ LastIdx(rk[r].trace, <<"all_gather", "TP">>) <
                      FirstIdx(rk[r].trace, <<"local", "add_residual">>)
                /\ Len(rk[r].hs) = cfg.tp_size * Len(rk[r].moe_out)
           ELSE /\ Count(rk[r].trace, <<"all_reduce", "WP">>) = 1
                /\ FirstIdx(rk[r].trace, <<"all_reduce", "WP">>) <
                      FirstIdx(rk[r].trace, <<"local", "add_residual">>)
                /\ \A i \in 1..Len(rk[r].trace) :
                      i > FirstIdx(rk[r].trace, <<"local", "experts">>)
                         => rk[r].trace[i][1] # "all_gather"

\* C23: the attention block issues no collective, on the eager and on the
\* graph path; with tp_size > 1 its output is reduced across the TP group
\* exactly once (an all-reduce or a reduce-scatter), in
\* post_attention_process and before the normalisation, in every branch.
C23_AttentionReducedOnce ==
  \A r \in Ranks :
     /\ (pc = "pa0" /\ rk[r].st = "run") =>
           /\ rk[r].attn \in {"eager", "graph"}
           /\ \A i \in 1..Len(rk[r].trace) : rk[r].trace[i][1] = "local"
     /\ (PostAttnDone(r) /\ cfg.tp_size > 1) =>
           /\ Cardinality(TpReductionsBeforeNorm(r)) = 1
           /\ \A i \in TpReductionsBeforeNorm(r) : i >= 3

C23_Witness ==
  /\ cfg.tp_size = 2 /\ cfg.dp_size = 2 /\ AllRun /\ cu = <<2, 5>>
  /\ PostAttnBranch = "reduce_scatter"
  /\ \A r \in Ranks : PostAttnDone(r) /\ rk[r].attn = "eager"
  /\ rk[<<0, 1>>].trace[4] = <<"reduce_scatter", "TP">>

\* C24: CustomDeepseekV2MoE.forward slices its input iff VLLM_ENABLE_MC2 is
\* set, the pass is a decode pass and tp_size > 1: the rank then processes
\* only chunk tp_rank of the tp_size chunks of the batch; in every other case
\* it processes the whole batch.
C24_MoeSlicing ==
  \A r \in Ranks :
     CalledMoE(r) =>
        /\ rk[r].st = "run"
        /\ rk[r].moe_out # None
        /\ IF cfg.mc2 /\ ~is_prefill /\ cfg.tp_size > 1
           THEN /\ NumChunks(Len(rk[r].moe_in), cfg.tp_size) = cfg.tp_size
                /\ rk[r].moe_out = Chunk(rk[r].moe_in, cfg.tp_size, r[2])
           ELSE rk[r].moe_out = rk[r].moe_in

\* C25: atten_unpad_mask[r * max_length + p] is true iff p < lengths[r], for
\* every data-parallel rank r and every p below max_length, and the map from
\* real token index to padded index is strictly increasing: token i of rank r
\* sits at padded index r * max_length + i.
C25_KeepMask ==
  plan # NoPlan =>
     /\ \A r \in 0..(cfg.dp_size - 1), p \in 0..(plan.max_length - 1) :
          plan.atten_unpad_mask[r * plan.max_length + p + 1]
             <=> (p < plan.lengths[r + 1])
     /\ Len(RealToPadded) = cu[Len(cu)]
     /\ \A a \in 1..Len(RealToPadded), b \in 1..Len(RealToPadded) :
          a < b => RealToPadded[a] < RealToPadded[b]
     /\ \A r \in 0..(cfg.dp_size - 1) : \A i \in 0..(plan.lengths[r + 1] - 1) :
          RealToPadded[SumSeq(SubSeq(plan.lengths, 1, r)) + i + 1]
             = r * plan.max_length + i

C25_Witness ==
  /\ plan # NoPlan /\ cu = <<1, 4>> /\ cfg.tp_size = 2
  /\ plan.atten_unpad_mask = <<TRUE, FALSE, FALSE, FALSE, TRUE, TRUE, TRUE, FALSE>>
  /\ RealToPadded = <<0, 4, 5, 6>>

\* C26: padding_aligned_wp on the rank-packed tensor returns
\* dp_size * max_length rows; rows r * max_length .. r * max_length +
\* lengths[r] - 1 are rank r's block in its order, and every other row is
\* zero.
C26_PadWpLayout ==
  px.op = "pad_wp" =>
     /\ px.out # Err
     /\ Len(px.out) = cfg.dp_size * plan.max_length
     /\ \A r \in 0..(cfg.dp_size - 1), p \in 0..(plan.max_length - 1) :
          px.out[r * plan.max_length + p + 1] =
             IF p < plan.lengths[r + 1] THEN Block(cu, r)[p + 1] ELSE 0

C26_Witness ==
  /\ px.op = "pad_wp" /\ cfg.dp_size = 2 /\ cfg.tp_size = 2 /\ cu = <<1, 4>>
  /\ px.out = <<TokenId(0, 1), 0, 0, 0, TokenId(1, 1), TokenId(1, 2),
                TokenId(1, 3), 0>>

\* C30: unpadding_aligned_tp applied to padding_aligned_wp(p) returns p, for
\* every rank-packed p of sum(lengths) rows.
C30_WpTpRoundTrip ==
  (px.op = "unpad_tp" /\ px.of = "pad_wp") =>
     /\ px.out # Err
     /\ px.out = px.x
     /\ Len(px.out) = SumSeq(plan.lengths)

C30_Witness ==
  /\ px.op = "unpad_tp" /\ px.of = "pad_wp"
  /\ cfg.dp_size = 2 /\ cfg.tp_size = 3 /\ cu = <<2, 5>>
  /\ px.x = Pack(cu)
  /\ px.out = <<TokenId(0, 1), TokenId(0, 2), TokenId(1, 1), TokenId(1, 2),
                TokenId(1, 3)>>

\* C27: the path of the attention block is fixed at construction: every call
\* takes the graph path iff enable_graph_mode was set, whatever the phase and
\* the inputs of the pass, and the flag never changes, so the path never
\* switches between calls.
C27_AttnPathFixed ==
  [][/\ cfg'.enable_graph_mode = cfg.enable_graph_mode
     /\ \A r \in Ranks :
          rk'[r].attn # "none" =>
             rk'[r].attn = IF cfg.enable_graph_mode THEN "graph" ELSE "eager"]_vars

C27_Witness ==
  /\ cfg.enable_graph_mode /\ is_prefill /\ pc = "pa0" /\ li = 1 /\ AllRun
  /\ \A r \in Ranks : rk[r].attn = "graph"
  /\ pp.invoked = <<0, 1>>

\* C28: in every reachable state the two operands of each residual operation
\* (the post-attention normalisation of hidden_states with residual, every
\* hidden_states + residual and every hidden_states + shared_output) have the
\* same number of rows.
C28_OperandRowsAgree ==
  \A r \in Ranks : rk[r].differ = <<>>

\* C29: every decoder layer returns as many rows as it received, the
\* lengths[dp_rank] rows of its data-parallel rank, in every branch.
C29_LayerKeepsRows ==
  \A r \in Ranks :
     (Returned /\ rk[r].st = "run") =>
        /\ Len(rk[r].hs) = rk[r].in_rows
        /\ Len(rk[r].hs) = Len(Block(cu, r[1]))

====
